---- MODULE Spec2Model ----
(***************************************************************************)
(* Model of the REST transport core of upstash-go: the rest client's       *)
(* request/Read/Write/Stream, its response-envelope interpretation and     *)
(* base64 decoding, the facade constructor New and Send, the Pipeline and  *)
(* Multi buffers, and Subscribe/Monitor with their streamReader goroutine. *)
(*                                                                         *)
(* Strings that the code transforms (response strings, base64 text) are    *)
(* sequences of byte values; URL bases, path segments, object keys and     *)
(* message formats, which the code only copies, are TLA+ strings.          *)
(* A decoded JSON value (Go `any`) is a tagged record:                     *)
(*   [t |-> "null"], [t |-> "bool", v], [t |-> "num", v], [t |-> "str", v],*)
(*   [t |-> "arr", v |-> sequence], [t |-> "obj", v |-> function on keys]  *)
(* A value that encoding/json cannot marshal is [t |-> "chan"].            *)
(***************************************************************************)
EXTENDS Integers, Sequences, FiniteSets, TLC

\* ------------------------------------------------------------------ bounds
MaxLen == 2          \* longest array in a response body
MaxRetries == 2      \* largest Retry.Retries a caller configures

\* ------------------------------------------------------- program constants
DefaultRetries == 5

\* --------------------------------------------------------------- JSON values
JNull == [t |-> "null"]
JBool(b) == [t |-> "bool", v |-> b]
JNum(n) == [t |-> "num", v |-> n]
JStr(s) == [t |-> "str", v |-> s]
JArr(s) == [t |-> "arr", v |-> s]
JObj(f) == [t |-> "obj", v |-> f]
JChan == [t |-> "chan"]

EmptyObj == [k \in {} |-> JNull]
Obj1(k, x) == [kk \in {k} |-> x]
Obj2(k1, x1, k2, x2) == [kk \in {k1, k2} |-> IF kk = k1 THEN x1 ELSE x2]

\* byte strings used in the scenarios
sEmpty == << >>
sOK == <<79, 75>>                     \* "OK"
sYmFy == <<89, 109, 70, 121>>         \* "YmFy", base64 of "bar"
sbar == <<98, 97, 114>>               \* "bar", not valid base64 (length 3)
sYQ == <<89, 81, 61, 61>>             \* "YQ==", base64 of "a"
sERR == <<69, 82, 82>>                \* "ERR"
sGET == <<71, 69, 84>>                \* "GET"
sk == <<107>>                         \* "k"

\* ------------------------------------------------- encoding/base64 (std)
\* base64.StdEncoding.DecodeString: '\r' and '\n' are skipped, padding is
\* required, trailing padding bits are not checked (non-strict).
StripNL(s) == SelectSeq(s, LAMBDA ch : ch \notin {10, 13})

B64Index(ch) ==
    IF ch \in 65..90 THEN ch - 65
    ELSE IF ch \in 97..122 THEN ch - 71
    ELSE IF ch \in 48..57 THEN ch + 4
    ELSE IF ch = 43 THEN 62
    ELSE IF ch = 47 THEN 63
    ELSE -1

B64Valid(s) ==
    /\ Len(s) % 4 = 0
    /\ \A i \in 1..Len(s) :
          \/ B64Index(s[i]) >= 0
          \/ s[i] = 61 /\ i = Len(s)
          \/ s[i] = 61 /\ i = Len(s) - 1 /\ s[Len(s)] = 61

DecodeQuantum(q) ==
    LET n0 == B64Index(q[1])
        n1 == B64Index(q[2])
        n2 == IF q[3] = 61 THEN 0 ELSE B64Index(q[3])
        n3 == IF q[4] = 61 THEN 0 ELSE B64Index(q[4])
        n == n0 * 262144 + n1 * 4096 + n2 * 64 + n3
        b0 == n \div 65536
        b1 == (n \div 256) % 256
        b2 == n % 256
    IN  IF q[3] = 61 THEN <<b0>>
        ELSE IF q[4] = 61 THEN <<b0, b1>>
        ELSE <<b0, b1, b2>>

RECURSIVE DecodeQuanta(_)
DecodeQuanta(s) ==
    IF Len(s) = 0 THEN << >>
    ELSE DecodeQuantum(SubSeq(s, 1, 4)) \o DecodeQuanta(SubSeq(s, 5, Len(s)))

\* (decoded, err): ok = FALSE stands for a CorruptInputError
DecodeString(s) ==
    LET t == StripNL(s)
    IN  IF B64Valid(t) THEN [ok |-> TRUE, bytes |-> DecodeQuanta(t)]
        ELSE [ok |-> FALSE, bytes |-> << >>]

\* ------------------------------------------------------------ decodeBase64
\* mutant: the decoder's error is ignored and its output is returned
RECURSIVE decodeBase64_DropMalformed(_)
decodeBase64_DropMalformed(v) ==
    CASE v.t = "str" ->
            IF v.v = sOK THEN v
            ELSE JStr(DecodeString(v.v).bytes)
      [] v.t = "arr" ->
            JArr([i \in 1..Len(v.v) |-> decodeBase64_DropMalformed(v.v[i])])
      [] v.t = "obj" ->
            JObj([k \in DOMAIN v.v |-> decodeBase64_DropMalformed(v.v[k])])
      [] OTHER -> v

\* mutant: the values of a map are not visited
RECURSIVE decodeBase64_NoMaps(_)
decodeBase64_NoMaps(v) ==
    CASE v.t = "str" ->
            IF v.v = sOK THEN v
            ELSE LET d == DecodeString(v.v)
                 IN  IF ~d.ok THEN v ELSE JStr(d.bytes)
      [] v.t = "arr" -> JArr([i \in 1..Len(v.v) |-> decodeBase64_NoMaps(v.v[i])])
      [] OTHER -> v

RECURSIVE decodeBase64(_)
decodeBase64(v) ==
    CASE v.t = "str" ->
            IF v.v = sOK THEN v
            ELSE LET d == DecodeString(v.v)
                 IN  IF ~d.ok THEN v ELSE JStr(d.bytes)
      [] v.t = "arr" -> JArr([i \in 1..Len(v.v) |-> decodeBase64(v.v[i])])
      [] v.t = "obj" -> JObj([k \in DOMAIN v.v |-> decodeBase64(v.v[k])])
      [] OTHER -> v

\* ------------------------------------------------------------------ errors
\* An error value is a record; a %w wrap keeps its cause so that errors.Is
\* can find it.
NoErr == [kind |-> "nil"]
Leaf(msg) == [kind |-> "leaf", msg |-> msg]
Wrap(format, cause) == [kind |-> "wrap", format |-> format, cause |-> cause]
CtxErr == Leaf("context canceled")              \* ctx.Err()
NetErr(i) == [kind |-> "net", attempt |-> i]    \* transport failure of attempt i
MsgErr(text) == [kind |-> "msg", text |-> text] \* fmt.Errorf("%s", errStr)
StatusErr(code, pretty, p) ==
    [kind |-> "status", format |-> "response returned status code %d: %+v, path: %s",
     code |-> code, body |-> pretty, path |-> p]
BadDecodeErr(code) ==
    [kind |-> "baddecode",
     format |-> "unable to decode response body of bad response: %s: %w",
     status |-> code, cause |-> Leaf("json: cannot decode")]
StreamStatusErr(code) ==
    [kind |-> "streamstatus", format |-> "stream request returned status code %d",
     code |-> code]
ExhaustedErr(n, cause) == [kind |-> "exhausted", retries |-> n, cause |-> cause]

RECURSIVE ErrorsIs(_, _)
ErrorsIs(err, target) ==
    \/ err = target
    \/ /\ err.kind \in {"wrap", "baddecode", "exhausted"}
       /\ ErrorsIs(err.cause, target)

\* ------------------------------------------------------------- marshalBody
RECURSIVE Marshalable(_)
Marshalable(v) ==
    CASE v.t = "chan" -> FALSE
      [] v.t = "arr" -> \A i \in 1..Len(v.v) : Marshalable(v.v[i])
      [] v.t = "obj" -> \A k \in DOMAIN v.v : Marshalable(v.v[k])
      [] OTHER -> TRUE

NoPayload == [t |-> "none"]

\* mutant: the marshal error is dropped
marshalBody_IgnoreErr(b) ==
    IF b # JNull /\ Marshalable(b) THEN [payload |-> b, err |-> NoErr]
    ELSE [payload |-> NoPayload, err |-> NoErr]

\* (payload, err); a nil body gives a nil payload
marshalBody(b) ==
    IF b # JNull
    THEN IF ~Marshalable(b)
         THEN [payload |-> NoPayload, err |-> Leaf("json: unsupported type")]
         ELSE [payload |-> b, err |-> NoErr]
    ELSE [payload |-> NoPayload, err |-> NoErr]

\* ------------------------------------------------- response interpretation
InvalidBody == [t |-> "invalid"]     \* a body that is not a JSON document
Is2xx(StatusCode) == ~(StatusCode < 200 \/ StatusCode >= 300)

Ret(result, err) == [result |-> result, err |-> err]

\* a status outside [200,300): the body is decoded into a map[string]any
\* (an object or null) and reported with the status code and the path
StatusError(StatusCode, rawBody, p) ==
    IF rawBody.t \notin {"obj", "null"}
    THEN Ret(JNull, BadDecodeErr(StatusCode))
    ELSE Ret(JNull, StatusErr(StatusCode, rawBody, p))

\* mutant: the result is not taken out of its envelope
Envelope_WholeMap(rawBody, b64) ==
    LET respMap == rawBody.v
    IN  IF "error" \in DOMAIN respMap /\ respMap["error"].t = "str"
           /\ respMap["error"].v # sEmpty
        THEN Ret(JNull, MsgErr(respMap["error"].v))
        ELSE IF b64 THEN Ret(decodeBase64(rawBody), NoErr)
             ELSE Ret(rawBody, NoErr)

\* mutant: the logical error message is wrapped in a prefix
Envelope_PrefixedErr(rawBody, b64) ==
    LET respMap == rawBody.v
    IN  IF "error" \in DOMAIN respMap /\ respMap["error"].t = "str"
           /\ respMap["error"].v # sEmpty
        THEN Ret(JNull, Wrap("upstash error: %w", MsgErr(respMap["error"].v)))
        ELSE IF "result" \in DOMAIN respMap
        THEN IF b64 THEN Ret(decodeBase64(respMap["result"]), NoErr)
             ELSE Ret(respMap["result"], NoErr)
        ELSE IF b64 THEN Ret(decodeBase64(rawBody), NoErr)
             ELSE Ret(rawBody, NoErr)

\* mutant: the result field is looked at before the error field
Envelope_ResultFirst(rawBody, b64) ==
    LET respMap == rawBody.v
    IN  IF "result" \in DOMAIN respMap
        THEN IF b64 THEN Ret(decodeBase64(respMap["result"]), NoErr)
             ELSE Ret(respMap["result"], NoErr)
        ELSE IF "error" \in DOMAIN respMap /\ respMap["error"].t = "str"
                /\ respMap["error"].v # sEmpty
        THEN Ret(JNull, MsgErr(respMap["error"].v))
        ELSE IF b64 THEN Ret(decodeBase64(rawBody), NoErr)
             ELSE Ret(rawBody, NoErr)

\* mutant: an error field fails the call whatever it holds
Envelope_AnyErrorField(rawBody, b64) ==
    LET respMap == rawBody.v
    IN  IF "error" \in DOMAIN respMap
        THEN Ret(JNull, MsgErr(IF respMap["error"].t = "str"
                               THEN respMap["error"].v ELSE sEmpty))
        ELSE IF "result" \in DOMAIN respMap
        THEN IF b64 THEN Ret(decodeBase64(respMap["result"]), NoErr)
             ELSE Ret(respMap["result"], NoErr)
        ELSE IF b64 THEN Ret(decodeBase64(rawBody), NoErr)
             ELSE Ret(rawBody, NoErr)

\* a 2xx object: {"error": ...}, {"result": ...} or neither
Envelope(rawBody, b64) ==
    LET respMap == rawBody.v
    IN  IF "error" \in DOMAIN respMap /\ respMap["error"].t = "str"
           /\ respMap["error"].v # sEmpty
        THEN Ret(JNull, MsgErr(respMap["error"].v))
        ELSE IF "result" \in DOMAIN respMap
        THEN IF b64 THEN Ret(decodeBase64(respMap["result"]), NoErr)
             ELSE Ret(respMap["result"], NoErr)
        ELSE IF b64 THEN Ret(decodeBase64(rawBody), NoErr)
             ELSE Ret(rawBody, NoErr)

\* mutant: the envelope of an object body is interpreted before the status
Interpret_EnvelopeFirst(StatusCode, rawBody, p, b64) ==
    IF rawBody.t = "obj"
    THEN Envelope(rawBody, b64)
    ELSE IF StatusCode < 200 \/ StatusCode >= 300
    THEN StatusError(StatusCode, rawBody, p)
    ELSE IF rawBody = InvalidBody
    THEN Ret(JNull, Wrap("unable to unmarshal response: %w", Leaf("json: cannot decode")))
    ELSE IF b64 THEN Ret(decodeBase64(rawBody), NoErr) ELSE Ret(rawBody, NoErr)

\* mutant: an array element with an error field fails the whole call
Interpret_ElementErrors(StatusCode, rawBody, p, b64) ==
    IF StatusCode < 200 \/ StatusCode >= 300
    THEN StatusError(StatusCode, rawBody, p)
    ELSE IF rawBody = InvalidBody
    THEN Ret(JNull, Wrap("unable to unmarshal response: %w", Leaf("json: cannot decode")))
    ELSE IF rawBody.t = "obj"
    THEN Envelope(rawBody, b64)
    ELSE IF rawBody.t = "arr"
    THEN IF \E i \in 1..Len(rawBody.v) :
               rawBody.v[i].t = "obj" /\ "error" \in DOMAIN rawBody.v[i].v
         THEN Ret(JNull, MsgErr(sERR))
         ELSE IF b64 THEN Ret(decodeBase64(rawBody), NoErr) ELSE Ret(rawBody, NoErr)
    ELSE IF b64 THEN Ret(decodeBase64(rawBody), NoErr) ELSE Ret(rawBody, NoErr)

\* the part of request after the response is obtained
Interpret(StatusCode, rawBody, p, b64) ==
    IF StatusCode < 200 \/ StatusCode >= 300
    THEN StatusError(StatusCode, rawBody, p)
    ELSE IF rawBody = InvalidBody
    THEN Ret(JNull, Wrap("unable to unmarshal response: %w", Leaf("json: cannot decode")))
    ELSE IF rawBody.t = "obj"
    THEN Envelope(rawBody, b64)
    ELSE IF rawBody.t = "arr"
    THEN IF b64 THEN Ret(decodeBase64(rawBody), NoErr) ELSE Ret(rawBody, NoErr)
    ELSE IF b64 THEN Ret(decodeBase64(rawBody), NoErr) ELSE Ret(rawBody, NoErr)

\* ------------------------------------------------------------ input domains
MainUrl == "https://main"
EdgeUrlValue == "https://edge"

ArrLeaves == {JNum(1), JStr(sYmFy), JStr(sOK)}
Arrays == UNION {[1..n -> ArrLeaves] : n \in 0..MaxLen}

\* values X carried in a {"result": X} envelope
ResultValues ==
    {JNull, JBool(TRUE), JNum(1), JStr(sOK), JStr(sYmFy), JStr(sbar), JStr(sYQ),
     JStr(sEmpty)}
    \cup {JArr(a) : a \in Arrays}
    \cup {JArr(<<JArr(<<JStr(sYmFy)>>), JStr(sbar)>>),
          JArr(<<JNull, JBool(FALSE), JObj(Obj1("b", JStr(sYQ)))>>),
          JObj(Obj1("a", JStr(sYmFy))),
          JObj(Obj2("a", JArr(<<JStr(sYmFy), JNum(1)>>), "ok", JStr(sOK)))}

ErrorMsgs == {sEmpty, sERR, sYmFy}

Bodies ==
    {InvalidBody, JNull, JNum(1), JStr(sYmFy), JObj(EmptyObj),
     JObj(Obj1("a", JStr(sYmFy)))}
    \cup {JObj(Obj1("result", x)) : x \in ResultValues}
    \cup {JObj(Obj1("error", JStr(m))) : m \in ErrorMsgs}
    \cup {JObj(Obj1("error", JNum(1))),
          JObj(Obj2("error", JNum(1), "result", JStr(sOK)))}
    \cup {JObj(Obj2("error", JStr(m), "result", JStr(sYmFy))) : m \in ErrorMsgs}
    \cup {JArr(<< >>),
          JArr(<<JObj(Obj1("result", JStr(sOK))), JObj(Obj1("error", JStr(sERR)))>>),
          JArr(<<JObj(Obj1("result", JStr(sYmFy)))>>)}

StatusCodes == {199, 200, 299, 300, 500}

Paths == {<< >>, <<"get", "foo">>}
WriteBodies == {JNull, JStr(sbar), JChan, JArr(<<JStr(sGET), JChan>>)}
Commands == {sGET}
ArgLists == {<< >>, <<JStr(sk)>>, <<JChan>>}

\* upstash.Options as a caller fills them
OptionsSet ==
    [EdgeUrl : {"", EdgeUrlValue}, ReadFromEdge : BOOLEAN, EnableBase64 : BOOLEAN,
     Retries : 0..MaxRetries]
\* values of the UPSTASH_REDIS_EDGE_URL environment variable
EnvEdgeUrls == {"", EdgeUrlValue}

\* commands pushed on a Pipeline or Multi: [command, args...]
sSET == <<83, 69, 84>>                \* "SET"
sv == <<118>>                         \* "v"
MaxCmds == 2         \* most commands pushed on one Pipeline or Multi
PushInputs ==
    {[command |-> sSET, args |-> <<JStr(sk), JStr(sv)>>],
     [command |-> sGET, args |-> <<JStr(sk)>>]}

\* response bodies of the batch scenarios
BatchBodies ==
    {InvalidBody,
     JObj(Obj1("result", JNull)),
     JObj(Obj1("result", JStr(sOK))),
     JObj(Obj1("error", JStr(sERR))),
     JArr(<<JObj(Obj1("result", JStr(sOK)))>>),
     JArr(<<JObj(Obj1("result", JStr(sOK))), JObj(Obj1("result", JStr(sYmFy)))>>),
     JArr(<<JObj(Obj1("error", JStr(sERR))), JObj(Obj1("result", JNum(1)))>>)}
BatchStatusCodes == {200, 500}

\* ------------------------------------------------------------------- state
VARIABLES
    options,        \* the Options the client was built from
    client,         \* the rest client: url, edgeUrl, enableBase64, retries
    pipeline,       \* Pipeline.commands
    multi,          \* Multi.commands
    pushed,         \* history: the Push calls made on each buffer, in order
    pc,             \* position of the one call in progress
    call,           \* the operation and its arguments
    req,            \* the *http.Request built for the call
    attempt,        \* retry state: index of the current attempt
    lastErr,        \* retry state: the last transport error
    ctxDone,        \* the caller's context is cancelled
    ctxDoneAt,      \* history: where the call was when the context was cancelled
    sent,           \* HTTP requests handed to the transport in this call
    backoffs,       \* the indices the backoff function was consulted with
    res,            \* the HTTP response obtained, if any
    bodyClosed,     \* res.Body.Close() was called
    ret,            \* what Read/Write/Stream returned
    facade,         \* the facade method the call came through, if any
    out,            \* what the facade method returned
    rpc,            \* position of the streamReader goroutine
    stream,         \* lines of the response body the scanner has not read yet
    msg,            \* the message streamReader is about to send
    received,       \* the values the consumer received from the out channel
    closed,         \* how many times stream.Close() and close(out) ran
    lines,          \* history: the lines of the response body, all of them
    endedBy,        \* history: why streamReader returned
    cancelSeen      \* history: where the reader was when the context was cancelled

clientVars == <<options, client>>
batchVars == <<pipeline, multi, pushed>>
readerVars == <<rpc, stream, msg, received, closed, lines, endedBy, cancelSeen>>
vars == <<options, client, pipeline, multi, pushed, pc, call, req, attempt, lastErr,
          ctxDone, ctxDoneAt, sent, backoffs, res, bodyClosed, ret, facade, out,
          rpc, stream, msg, received, closed, lines, endedBy, cancelSeen>>

NoCall == [op |-> "none"]
NoReq == [method |-> "none"]
NoRes == [StatusCode |-> 0]
NotCancelled == [at |-> "none", received |-> 0]
NoRet == [pending |-> TRUE]

\* mutant: Retries is passed on as it is
New_NoDefault(o, envEdgeUrl) ==
    LET EdgeUrl == IF o.EdgeUrl = "" THEN envEdgeUrl ELSE o.EdgeUrl
    IN  [url |-> MainUrl, edgeUrl |-> EdgeUrl, enableBase64 |-> o.EnableBase64,
         retries |-> o.Retries]

\* upstash.New: environment fallback and defaults, then rest.New
New(o, envEdgeUrl) ==
    LET EdgeUrl == IF o.EdgeUrl = "" THEN envEdgeUrl ELSE o.EdgeUrl
        Retries == IF o.Retries = 0 THEN DefaultRetries ELSE o.Retries
    IN  [url |-> MainUrl, edgeUrl |-> EdgeUrl, enableBase64 |-> o.EnableBase64,
         retries |-> Retries]

Init ==
    /\ options \in OptionsSet
    /\ \E env \in EnvEdgeUrls : client = New(options, env)
    /\ pipeline = << >>
    /\ multi = << >>
    /\ pushed = [Pipeline |-> << >>, Multi |-> << >>]
    /\ pc = "idle"
    /\ call = NoCall
    /\ req = NoReq
    /\ attempt = 0
    /\ lastErr = NoErr
    /\ ctxDone = FALSE
    /\ ctxDoneAt = "none"
    /\ sent = << >>
    /\ backoffs = << >>
    /\ res = NoRes
    /\ bodyClosed = FALSE
    /\ ret = NoRet
    /\ facade = "none"
    /\ out = NoRet
    /\ rpc = "none"
    /\ stream = << >>
    /\ msg = << >>
    /\ received = << >>
    /\ closed = [stream |-> 0, out |-> 0]
    /\ lines = << >>
    /\ endedBy = "none"
    /\ cancelSeen = NotCancelled

\* ------------------------------------------------------- facade post-step
\* Pipeline.Exec / Multi.Exec after Write returned (res, err)
ExecResult(r) ==
    IF r.err # NoErr THEN Ret(JNull, r.err)
    ELSE IF r.result = JNull THEN Ret(JNull, NoErr)
    ELSE IF r.result.t = "arr" THEN Ret(r.result, NoErr)
    ELSE Ret(JNull, Leaf("unexpected return type"))

\* Subscribe / Monitor after Stream returned (stream, err): with an error
\* they return it; without one they have the channel still to make
SubscribeResult(r) ==
    IF r.err # NoErr THEN Ret(JNull, r.err) ELSE NoRet

FacadeResult(f, r) ==
    IF f \in {"Pipeline.Exec", "Multi.Exec"} THEN ExecResult(r)
    ELSE IF f \in {"Subscribe", "Monitor"} THEN SubscribeResult(r)
    ELSE r

\* the rest call returns r; the facade method that made it returns too
Finish(r) ==
    /\ pc' = "done"
    /\ ret' = r
    /\ out' = FacadeResult(facade', r)

\* ----------------------------------------------------------------- request
\* headers set on a Read/Write request
RequestHeaders(c) ==
    [h \in {"Content-Type", "Authorization"} \cup
           (IF c.enableBase64 THEN {"Upstash-Encoding"} ELSE {}) |->
        CASE h = "Content-Type" -> "application/json"
          [] h = "Authorization" -> "Bearer token"
          [] OTHER -> "base64"]

\* mutant: the edge URL is never used
baseUrl_NoEdge(method) == client.url

\* mutant: the edge URL is used whatever the method
baseUrl_AnyMethod(method) ==
    IF client.edgeUrl # "" THEN client.edgeUrl ELSE client.url

baseUrl(method) ==
    IF method = "GET" /\ client.edgeUrl # "" THEN client.edgeUrl ELSE client.url

\* request, up to the point where the request is handed to the transport:
\* marshal the body, choose the base URL, build the request
request(op, method, p, b, cancelled) ==
    LET m == marshalBody(b)
    IN  /\ pc = "idle"
        /\ call' = [op |-> op, method |-> method, path |-> p, body |-> b]
        /\ ctxDone' = cancelled
        /\ ctxDoneAt' = IF cancelled THEN "start" ELSE "none"
        /\ attempt' = 0
        /\ lastErr' = NoErr
        /\ sent' = << >>
        /\ backoffs' = << >>
        /\ res' = NoRes
        /\ bodyClosed' = FALSE
        /\ IF m.err # NoErr
           THEN /\ Finish(Ret(JNull, Wrap("unable to marshal request body: %w", m.err)))
                /\ req' = NoReq
           ELSE /\ ret' = NoRet
                /\ out' = NoRet
                /\ req' = [method |-> method, base |-> baseUrl(method), path |-> p,
                           payload |-> m.payload, header |-> RequestHeaders(client)]
                /\ pc' = "attempt"
        /\ UNCHANGED <<clientVars, batchVars, readerVars>>

Read(p, cancelled) == request("Read", "GET", p, JNull, cancelled)

Write(p, b, cancelled) == request("Write", "POST", p, b, cancelled)

\* Upstash.Send: body [command, args...], no path, through Write
Send(command, args, cancelled) ==
    /\ facade' = "Send"
    /\ Write(<< >>, JArr(<<JStr(command)>> \o args), cancelled)

CallRead == \E p \in Paths, cancelled \in BOOLEAN : facade' = "none" /\ Read(p, cancelled)

CallWrite ==
    \E p \in Paths, b \in WriteBodies, cancelled \in BOOLEAN :
        facade' = "none" /\ Write(p, b, cancelled)

CallSend ==
    \E command \in Commands, args \in ArgLists, cancelled \in BOOLEAN :
        Send(command, args, cancelled)

\* ------------------------------------------------------------- retry loop
\* cancellation is honoured before the request is issued
AttemptCancelled ==
    /\ pc = "attempt"
    /\ ctxDone
    /\ facade' = facade
    /\ Finish(Ret(JNull, CtxErr))
    /\ UNCHANGED <<clientVars, batchVars, readerVars, call, req, attempt, lastErr, ctxDone, ctxDoneAt,
                   sent, backoffs, res, bodyClosed>>

\* c.httpClient.Do(req): the request goes out
Do ==
    /\ pc = "attempt"
    /\ ~ctxDone
    /\ sent' = Append(sent, req)
    /\ pc' = "inflight"
    /\ UNCHANGED <<clientVars, batchVars, readerVars, call, req, attempt, lastErr, ctxDone, ctxDoneAt,
                   backoffs, res, bodyClosed, ret, facade, out>>

\* mutant: the backoff function is consulted with the attempt number from 1
DoFailed_BackoffFromOne ==
    /\ pc = "inflight"
    /\ \E e \in {NetErr(attempt)} \cup (IF ctxDone THEN {CtxErr} ELSE {}) :
          lastErr' = e
    /\ backoffs' = Append(backoffs, attempt + 1)
    /\ pc' = "sleep"
    /\ UNCHANGED <<clientVars, batchVars, readerVars, call, req, attempt, ctxDone, ctxDoneAt, sent, res,
                   bodyClosed, ret, facade, out>>

\* Do returned an error: no response was obtained. The backoff function is
\* consulted with the attempt index and the call sleeps.
DoFailed ==
    /\ pc = "inflight"
    /\ \E e \in {NetErr(attempt)} \cup (IF ctxDone THEN {CtxErr} ELSE {}) :
          lastErr' = e
    /\ backoffs' = Append(backoffs, attempt)
    /\ pc' = "sleep"
    /\ UNCHANGED <<clientVars, batchVars, readerVars, call, req, attempt, ctxDone, ctxDoneAt, sent, res,
                   bodyClosed, ret, facade, out>>

\* mutant: one attempt too many
SleepElapsed_OffByOne ==
    /\ pc = "sleep"
    /\ ~ctxDone
    /\ attempt' = attempt + 1
    /\ facade' = facade
    /\ IF attempt + 1 <= client.retries
       THEN pc' = "attempt" /\ ret' = ret /\ out' = out
       ELSE Finish(Ret(JNull, ExhaustedErr(client.retries, lastErr)))
    /\ UNCHANGED <<clientVars, batchVars, readerVars, call, req, lastErr, ctxDone, ctxDoneAt, sent,
                   backoffs, res, bodyClosed>>

\* mutant: the wait is not interruptible
SleepElapsed_Uninterruptible ==
    /\ pc = "sleep"
    /\ attempt' = attempt + 1
    /\ facade' = facade
    /\ IF attempt + 1 < client.retries
       THEN pc' = "attempt" /\ ret' = ret /\ out' = out
       ELSE Finish(Ret(JNull, ExhaustedErr(client.retries, lastErr)))
    /\ UNCHANGED <<clientVars, batchVars, readerVars, call, req, lastErr, ctxDone, ctxDoneAt, sent,
                   backoffs, res, bodyClosed>>

\* the backoff wait elapsed: next attempt, or the attempts are exhausted
SleepElapsed ==
    /\ pc = "sleep"
    /\ ~ctxDone
    /\ attempt' = attempt + 1
    /\ facade' = facade
    /\ IF attempt + 1 < client.retries
       THEN pc' = "attempt" /\ ret' = ret /\ out' = out
       ELSE Finish(Ret(JNull, ExhaustedErr(client.retries, lastErr)))
    /\ UNCHANGED <<clientVars, batchVars, readerVars, call, req, lastErr, ctxDone, ctxDoneAt, sent,
                   backoffs, res, bodyClosed>>

\* the context was cancelled during the backoff wait
SleepCancelled ==
    /\ pc = "sleep"
    /\ ctxDone
    /\ facade' = facade
    /\ Finish(Ret(JNull, CtxErr))
    /\ UNCHANGED <<clientVars, batchVars, readerVars, call, req, attempt, lastErr, ctxDone, ctxDoneAt,
                   sent, backoffs, res, bodyClosed>>

\* mutant: a 5xx response is retried like a transport failure
DoResponded_RetryServerError(StatusCode, rawBody) ==
    /\ pc = "inflight"
    /\ res' = [StatusCode |-> StatusCode, Body |-> rawBody]
    /\ bodyClosed' = TRUE
    /\ facade' = facade
    /\ IF StatusCode >= 500
       THEN /\ pc' = "sleep"
            /\ backoffs' = Append(backoffs, attempt)
            /\ UNCHANGED <<ret, out>>
       ELSE /\ Finish(Interpret(StatusCode, rawBody, call.path, client.enableBase64))
            /\ backoffs' = backoffs
    /\ UNCHANGED <<clientVars, batchVars, readerVars, call, req, attempt, lastErr, ctxDone, ctxDoneAt,
                   sent>>

\* mutant: a 2xx response carrying an error is retried
DoResponded_RetryLogicalError(StatusCode, rawBody) ==
    /\ pc = "inflight"
    /\ res' = [StatusCode |-> StatusCode, Body |-> rawBody]
    /\ bodyClosed' = TRUE
    /\ facade' = facade
    /\ LET r == Interpret(StatusCode, rawBody, call.path, client.enableBase64)
       IN  IF r.err.kind = "msg"
           THEN /\ pc' = "sleep"
                /\ backoffs' = Append(backoffs, attempt)
                /\ UNCHANGED <<ret, out>>
           ELSE /\ Finish(r)
                /\ backoffs' = backoffs
    /\ UNCHANGED <<clientVars, batchVars, readerVars, call, req, attempt, lastErr, ctxDone, ctxDoneAt,
                   sent>>

\* Do returned a response: close the body on return, interpret it
DoResponded(StatusCode, rawBody) ==
    /\ pc = "inflight"
    /\ res' = [StatusCode |-> StatusCode, Body |-> rawBody]
    /\ bodyClosed' = TRUE
    /\ facade' = facade
    /\ Finish(Interpret(StatusCode, rawBody, call.path, client.enableBase64))
    /\ UNCHANGED <<clientVars, batchVars, readerVars, call, req, attempt, lastErr, ctxDone, ctxDoneAt,
                   sent, backoffs>>

Respond ==
    \E StatusCode \in StatusCodes, rawBody \in Bodies : DoResponded(StatusCode, rawBody)

\* the caller cancels the context (or its deadline fires)
Cancel ==
    /\ pc \in {"attempt", "inflight", "sleep", "stream_attempt", "stream_inflight"}
    /\ ~ctxDone
    /\ ctxDone' = TRUE
    /\ ctxDoneAt' = pc
    /\ UNCHANGED <<clientVars, batchVars, readerVars, pc, call, req, attempt, lastErr, sent,
                   backoffs, res, bodyClosed, ret, facade, out>>

\* mutant: the buffer of the Pipeline or Multi is emptied when Exec returns
Return_ExecClears ==
    /\ pc = "done"
    /\ pc' = "idle"
    /\ call' = NoCall
    /\ req' = NoReq
    /\ attempt' = 0
    /\ lastErr' = NoErr
    /\ ctxDone' = FALSE
    /\ ctxDoneAt' = "none"
    /\ sent' = << >>
    /\ backoffs' = << >>
    /\ res' = NoRes
    /\ bodyClosed' = FALSE
    /\ ret' = NoRet
    /\ facade' = "none"
    /\ out' = NoRet
    /\ pipeline' = IF facade = "Pipeline.Exec" THEN << >> ELSE pipeline
    /\ multi' = IF facade = "Multi.Exec" THEN << >> ELSE multi
    /\ UNCHANGED <<clientVars, pushed, readerVars>>

\* the call has returned; the client is ready for the next call
Return ==
    /\ pc = "done"
    /\ pc' = "idle"
    /\ call' = NoCall
    /\ req' = NoReq
    /\ attempt' = 0
    /\ lastErr' = NoErr
    /\ ctxDone' = FALSE
    /\ ctxDoneAt' = "none"
    /\ sent' = << >>
    /\ backoffs' = << >>
    /\ res' = NoRes
    /\ bodyClosed' = FALSE
    /\ ret' = NoRet
    /\ facade' = "none"
    /\ out' = NoRet
    /\ UNCHANGED <<clientVars, batchVars, readerVars>>

\* ------------------------------------------------------------------ Stream
StreamHeaders ==
    [h \in {"Authorization", "Accept"} |->
        IF h = "Authorization" THEN "Bearer token" ELSE "text/event-stream"]

StreamBody == [t |-> "stream"]     \* the open res.Body handed to the caller

\* mutant: Stream chooses its base URL the way a read does
Stream_ViaEdge(p, cancelled) ==
    /\ pc = "idle"
    /\ call' = [op |-> "Stream", method |-> "GET", path |-> p, body |-> JNull]
    /\ req' = [method |-> "GET", base |-> baseUrl("GET"), path |-> p,
               payload |-> NoPayload, header |-> StreamHeaders]
    /\ ctxDone' = cancelled
    /\ ctxDoneAt' = IF cancelled THEN "start" ELSE "none"
    /\ pc' = "stream_attempt"
    /\ UNCHANGED <<clientVars, batchVars, readerVars, attempt, lastErr, sent, backoffs, res,
                   bodyClosed, ret, out>>

\* Stream, up to the point where the request is handed to the transport
Stream(p, cancelled) ==
    /\ pc = "idle"
    /\ call' = [op |-> "Stream", method |-> "GET", path |-> p, body |-> JNull]
    /\ req' = [method |-> "GET", base |-> client.url, path |-> p,
               payload |-> NoPayload, header |-> StreamHeaders]
    /\ ctxDone' = cancelled
    /\ ctxDoneAt' = IF cancelled THEN "start" ELSE "none"
    /\ pc' = "stream_attempt"
    /\ UNCHANGED <<clientVars, batchVars, readerVars, attempt, lastErr, sent, backoffs, res,
                   bodyClosed, ret, out>>

CallStream == \E p \in Paths, cancelled \in BOOLEAN : facade' = "none" /\ Stream(p, cancelled)

\* mutant: the transport error is formatted into the message, not wrapped
StreamDo_NoWrap ==
    /\ pc = "stream_attempt"
    /\ facade' = facade
    /\ IF ctxDone
       THEN /\ Finish(Ret(JNull, Leaf("unable to perform stream request: context canceled")))
            /\ sent' = sent
       ELSE /\ sent' = Append(sent, req)
            /\ pc' = "stream_inflight"
            /\ ret' = ret
            /\ out' = out
    /\ UNCHANGED <<clientVars, batchVars, readerVars, call, req, attempt, lastErr, ctxDone, ctxDoneAt,
                   backoffs, res, bodyClosed>>

\* c.httpClient.Do(httpReq): a request whose context is already cancelled is
\* not sent, Do returns the context's error
StreamDo ==
    /\ pc = "stream_attempt"
    /\ facade' = facade
    /\ IF ctxDone
       THEN /\ Finish(Ret(JNull, Wrap("unable to perform stream request: %w", CtxErr)))
            /\ sent' = sent
       ELSE /\ sent' = Append(sent, req)
            /\ pc' = "stream_inflight"
            /\ ret' = ret
            /\ out' = out
    /\ UNCHANGED <<clientVars, batchVars, readerVars, call, req, attempt, lastErr, ctxDone, ctxDoneAt,
                   backoffs, res, bodyClosed>>

\* Do returned an error: returned to the caller at once
StreamDoFailed ==
    /\ pc = "stream_inflight"
    /\ facade' = facade
    /\ \E e \in {NetErr(0)} \cup (IF ctxDone THEN {CtxErr} ELSE {}) :
          Finish(Ret(JNull, Wrap("unable to perform stream request: %w", e)))
    /\ UNCHANGED <<clientVars, batchVars, readerVars, call, req, attempt, lastErr, ctxDone, ctxDoneAt,
                   sent, backoffs, res, bodyClosed>>

\* Do returned a response
StreamDoResponded(StatusCode) ==
    /\ pc = "stream_inflight"
    /\ res' = [StatusCode |-> StatusCode, Body |-> StreamBody]
    /\ facade' = facade
    /\ IF StatusCode < 200 \/ StatusCode >= 300
       THEN /\ bodyClosed' = TRUE
            /\ Finish(Ret(JNull, StreamStatusErr(StatusCode)))
       ELSE /\ bodyClosed' = FALSE
            /\ Finish(Ret(StreamBody, NoErr))
    /\ UNCHANGED <<clientVars, batchVars, readerVars, call, req, attempt, lastErr, ctxDone, ctxDoneAt,
                   sent, backoffs>>

StreamRespond == \E StatusCode \in StatusCodes : StreamDoResponded(StatusCode)

\* -------------------------------------------------------- Pipeline and Multi
callVars == <<pc, call, req, attempt, lastErr, ctxDone, ctxDoneAt, sent, backoffs, res,
              bodyClosed, ret, facade, out>>

Commands2Body(commands) == JArr([i \in 1..Len(commands) |-> JArr(commands[i])])

\* mutant: the arguments are not appended to the command
PipelinePush_NoArgs(command, args) ==
    /\ pc = "idle"
    /\ Len(pipeline) < MaxCmds
    /\ pipeline' = Append(pipeline, <<JStr(command)>>)
    /\ pushed' = [pushed EXCEPT !.Pipeline = Append(@, [command |-> command, args |-> args])]
    /\ UNCHANGED <<clientVars, multi, callVars, readerVars>>

PipelinePush(command, args) ==
    /\ pc = "idle"
    /\ Len(pipeline) < MaxCmds
    /\ pipeline' = Append(pipeline, <<JStr(command)>> \o args)
    /\ pushed' = [pushed EXCEPT !.Pipeline = Append(@, [command |-> command, args |-> args])]
    /\ UNCHANGED <<clientVars, multi, callVars, readerVars>>

MultiPush(command, args) ==
    /\ pc = "idle"
    /\ Len(multi) < MaxCmds
    /\ multi' = Append(multi, <<JStr(command)>> \o args)
    /\ pushed' = [pushed EXCEPT !.Multi = Append(@, [command |-> command, args |-> args])]
    /\ UNCHANGED <<clientVars, pipeline, callVars, readerVars>>

MultiDiscard ==
    /\ pc = "idle"
    /\ multi' = << >>
    /\ pushed' = [pushed EXCEPT !.Multi = << >>]
    /\ UNCHANGED <<clientVars, pipeline, callVars, readerVars>>

\* mutant: an empty buffer is sent like any other
Exec_NoEmptyCheck(name, commands, p, cancelled) ==
    /\ pc = "idle"
    /\ facade' = name
    /\ Write(<<p>>, Commands2Body(commands), cancelled)

\* Exec with no commands returns an empty list at once; otherwise Write
Exec(name, commands, p, cancelled) ==
    /\ pc = "idle"
    /\ facade' = name
    /\ IF Len(commands) = 0
       THEN /\ pc' = "done"
            /\ out' = Ret(JArr(<< >>), NoErr)
            /\ call' = [op |-> "Exec"]
            /\ ctxDone' = cancelled
            /\ ctxDoneAt' = IF cancelled THEN "start" ELSE "none"
            /\ UNCHANGED <<clientVars, batchVars, readerVars, req, attempt, lastErr, sent,
                           backoffs, res, bodyClosed, ret>>
       ELSE Write(<<p>>, Commands2Body(commands), cancelled)

PipelineExec == \E cancelled \in BOOLEAN : Exec("Pipeline.Exec", pipeline, "pipeline", cancelled)

MultiExec == \E cancelled \in BOOLEAN : Exec("Multi.Exec", multi, "multi-exec", cancelled)

CallPipelinePush == \E in \in PushInputs : PipelinePush(in.command, in.args)

CallMultiPush == \E in \in PushInputs : MultiPush(in.command, in.args)

RespondBatch ==
    \E StatusCode \in BatchStatusCodes, rawBody \in BatchBodies :
        DoResponded(StatusCode, rawBody)

\* ------------------------------------------------------------ streamReader
\* strings.HasPrefix, strings.HasSuffix, strings.TrimPrefix
HasPrefix(s, prefix) ==
    Len(s) >= Len(prefix) /\ SubSeq(s, 1, Len(prefix)) = prefix

HasSuffix(s, suffix) ==
    Len(s) >= Len(suffix) /\ SubSeq(s, Len(s) - Len(suffix) + 1, Len(s)) = suffix

TrimPrefix(s, prefix) ==
    IF HasPrefix(s, prefix) THEN SubSeq(s, Len(prefix) + 1, Len(s)) ELSE s

\* bufio.ScanLines: the token is the line without its end-of-line marker,
\* which is "\n" or "\r\n"
dropCR(data) ==
    IF Len(data) > 0 /\ data[Len(data)] = 13
    THEN SubSeq(data, 1, Len(data) - 1)
    ELSE data

sData == <<100, 97, 116, 97, 58, 32>>      \* "data: "
sQuote == <<34>>                           \* "\""

\* mutant: the closing quote is not asked for
Message_PrefixOnly(line) ==
    LET m == TrimPrefix(line, sData)
    IN  IF HasPrefix(m, sQuote) /\ Len(m) >= 2
        THEN SubSeq(m, 2, Len(m) - 1)
        ELSE m

\* msg of a line that has the prefix "data: "
Message(line) ==
    LET m == TrimPrefix(line, sData)
    IN  IF HasPrefix(m, sQuote) /\ HasSuffix(m, sQuote) /\ Len(m) >= 2
        THEN SubSeq(m, 2, Len(m) - 1)
        ELSE m

\* the lines a response body is made of, each without its "\n"
lHi == sData \o <<104, 105>>                  \* data: hi
lHiCR == sData \o <<104, 105, 13>>            \* data: hi\r
lQuoted == sData \o <<34, 104, 105, 34>>      \* data: "hi"
lQuote == sData \o <<34>>                     \* data: "
lOpen == sData \o <<34, 97>>                  \* data: "a
lEmptyQuoted == sData \o <<34, 34>>           \* data: ""
lBare == sData                                \* data: (nothing after the prefix)
lBlank == << >>                               \* the blank line between events
lNoSpace == <<100, 97, 116, 97, 58, 120>>     \* data:x

StreamLines == {lHi, lHiCR, lQuoted, lQuote, lOpen, lEmptyQuoted, lBare, lBlank, lNoSpace}
MaxLines == 2        \* most lines in the body of a stream
StreamContents == UNION {[1..n -> StreamLines] : n \in 0..MaxLines}
Channels == {"ch"}

Subscribe(channel, cancelled) ==
    /\ facade' = "Subscribe"
    /\ Stream(<<"subscribe", channel>>, cancelled)

Monitor(cancelled) ==
    /\ facade' = "Monitor"
    /\ Stream(<<"monitor">>, cancelled)

CallSubscribe == \E channel \in Channels, cancelled \in BOOLEAN : Subscribe(channel, cancelled)

CallMonitor == \E cancelled \in BOOLEAN : Monitor(cancelled)

\* mutant: the error of Stream is not looked at
GoStreamReader_NoErrCheck(body) ==
    /\ pc = "done"
    /\ facade \in {"Subscribe", "Monitor"}
    /\ rpc = "none"
    /\ rpc' = "scan"
    /\ stream' = body
    /\ lines' = body
    /\ out' = Ret(JChan, NoErr)
    /\ cancelSeen' = IF ctxDone THEN [at |-> "start", received |-> 0] ELSE cancelSeen
    /\ UNCHANGED <<clientVars, batchVars, pc, call, req, attempt, lastErr, ctxDone,
                   ctxDoneAt, sent, backoffs, res, bodyClosed, ret, facade,
                   msg, received, closed, endedBy>>

\* Subscribe / Monitor after Stream returned a stream: make the channel,
\* start streamReader on it, return it
GoStreamReader(body) ==
    /\ pc = "done"
    /\ facade \in {"Subscribe", "Monitor"}
    /\ ret.err = NoErr
    /\ rpc = "none"
    /\ rpc' = "scan"
    /\ stream' = body
    /\ lines' = body
    /\ out' = Ret(JChan, NoErr)
    /\ cancelSeen' = IF ctxDone THEN [at |-> "start", received |-> 0] ELSE cancelSeen
    /\ UNCHANGED <<clientVars, batchVars, pc, call, req, attempt, lastErr, ctxDone,
                   ctxDoneAt, sent, backoffs, res, bodyClosed, ret, facade,
                   msg, received, closed, endedBy>>

StartReader == \E body \in StreamContents : GoStreamReader(body)

\* streamReader returns: the deferred close(out) and stream.Close() run
ReaderReturn(cause) ==
    /\ rpc' = "returned"
    /\ closed' = [stream |-> closed.stream + 1, out |-> closed.out + 1]
    /\ bodyClosed' = TRUE
    /\ endedBy' = cause

readerFrame == <<clientVars, batchVars, pc, call, req, attempt, lastErr, ctxDone,
                 ctxDoneAt, sent, backoffs, res, ret, facade, out, lines, cancelSeen>>

\* mutant: a data line with nothing to say is not sent
ScanLine_SkipEmpty ==
    /\ rpc = "scan"
    /\ stream # << >>
    /\ stream' = Tail(stream)
    /\ LET line == dropCR(Head(stream))
       IN  IF HasPrefix(line, sData) /\ Message(line) # << >>
           THEN msg' = Message(line) /\ rpc' = "send"
           ELSE msg' = msg /\ rpc' = "check"
    /\ UNCHANGED <<readerFrame, bodyClosed, received, closed, endedBy>>

\* scanner.Scan() returned true: the next line is taken; a data line goes to
\* the first select with its message, any other line to the second select
ScanLine ==
    /\ rpc = "scan"
    /\ stream # << >>
    /\ stream' = Tail(stream)
    /\ LET line == dropCR(Head(stream))
       IN  IF HasPrefix(line, sData)
           THEN msg' = Message(line) /\ rpc' = "send"
           ELSE msg' = msg /\ rpc' = "check"
    /\ UNCHANGED <<readerFrame, bodyClosed, received, closed, endedBy>>

\* scanner.Scan() returned false at the end of the body
ScanEOF ==
    /\ rpc = "scan"
    /\ stream = << >>
    /\ ReaderReturn("eof")
    /\ UNCHANGED <<readerFrame, stream, msg, received>>

\* scanner.Scan() returned false on a read error (a broken connection, a
\* cancelled request, a line longer than the scanner's buffer)
ScanError ==
    /\ rpc = "scan"
    /\ ReaderReturn("error")
    /\ UNCHANGED <<readerFrame, stream, msg, received>>

\* mutant: after a send the reader goes straight back to the scanner
SendMsg_NoCheckAfter ==
    /\ rpc = "send"
    /\ received' = Append(received, msg)
    /\ rpc' = "scan"
    /\ UNCHANGED <<readerFrame, bodyClosed, stream, msg, closed, endedBy>>

\* first select, case out <- msg: the consumer receives msg
SendMsg ==
    /\ rpc = "send"
    /\ received' = Append(received, msg)
    /\ rpc' = "check"
    /\ UNCHANGED <<readerFrame, bodyClosed, stream, msg, closed, endedBy>>

\* mutant: the return on cancellation runs no close
SendCancelled_NoClose ==
    /\ rpc = "send"
    /\ ctxDone
    /\ rpc' = "returned"
    /\ endedBy' = "cancel"
    /\ UNCHANGED <<readerFrame, bodyClosed, closed, stream, msg, received>>

\* mutant: the send is not in a select, cancellation cannot end it
SendCancelled_Unguarded ==
    /\ rpc = "send"
    /\ ctxDone
    /\ FALSE
    /\ UNCHANGED vars

\* first select, case <-ctx.Done()
SendCancelled ==
    /\ rpc = "send"
    /\ ctxDone
    /\ ReaderReturn("cancel")
    /\ UNCHANGED <<readerFrame, stream, msg, received>>

\* mutant: there is no second select
CheckCtx_NoCheck ==
    /\ rpc = "check"
    /\ rpc' = "scan"
    /\ UNCHANGED <<bodyClosed, closed, endedBy>>
    /\ UNCHANGED <<readerFrame, stream, msg, received>>

\* second select: return when the context is done, scan on otherwise
CheckCtx ==
    /\ rpc = "check"
    /\ IF ctxDone
       THEN ReaderReturn("cancel")
       ELSE rpc' = "scan" /\ UNCHANGED <<bodyClosed, closed, endedBy>>
    /\ UNCHANGED <<readerFrame, stream, msg, received>>

\* the caller cancels the context while streamReader runs
CancelReader ==
    /\ rpc \in {"scan", "send", "check"}
    /\ ~ctxDone
    /\ ctxDone' = TRUE
    /\ cancelSeen' = [at |-> rpc, received |-> Len(received)]
    /\ UNCHANGED <<clientVars, batchVars, pc, call, req, attempt, lastErr, ctxDoneAt,
                   sent, backoffs, res, bodyClosed, ret, facade, out,
                   rpc, stream, msg, received, closed, lines, endedBy>>

\* ------------------------------------------------------------ specifications
\* the transport: Read, Write, Send, Stream
Next ==
    \/ CallRead
    \/ CallWrite
    \/ CallSend
    \/ CallStream
    \/ AttemptCancelled
    \/ Do
    \/ DoFailed
    \/ SleepElapsed
    \/ SleepCancelled
    \/ Respond
    \/ Cancel
    \/ Return
    \/ StreamDo
    \/ StreamDoFailed
    \/ StreamRespond

Spec == Init /\ [][Next]_vars

\* the writers: Write, Send, Pipeline and Multi
NextBatch ==
    \/ CallWrite
    \/ CallSend
    \/ CallPipelinePush
    \/ CallMultiPush
    \/ MultiDiscard
    \/ PipelineExec
    \/ MultiExec
    \/ AttemptCancelled
    \/ Do
    \/ DoFailed
    \/ SleepElapsed
    \/ SleepCancelled
    \/ RespondBatch
    \/ Cancel
    \/ Return

\* the writers make no read, so the option that is about reads stays off
InitBatch == Init /\ ~options.ReadFromEdge

SpecBatch == InitBatch /\ [][NextBatch]_vars

\* the subscriptions: Subscribe and Monitor with the stream reader, on a
\* client whose options the reader does not depend on
InitStream ==
    /\ Init
    /\ options.Retries = 0
    /\ ~options.ReadFromEdge
    /\ ~options.EnableBase64

NextStream ==
    \/ CallSubscribe
    \/ CallMonitor
    \/ Cancel
    \/ StreamDo
    \/ StreamDoFailed
    \/ StreamRespond
    \/ StartReader
    \/ ScanLine
    \/ ScanEOF
    \/ ScanError
    \/ SendMsg
    \/ SendCancelled
    \/ CheckCtx
    \/ CancelReader

SpecStream == InitStream /\ [][NextStream]_vars

\* the same with a scheduler that runs a goroutine that can take a step: a
\* reader whose select has a ready case takes one.  The consumer, the origin
\* and the caller are under no such obligation.
SpecStreamFair ==
    /\ SpecStream
    /\ WF_vars(SendCancelled)
    /\ WF_vars(CheckCtx)

TypeOK ==
    /\ pc \in {"idle", "attempt", "inflight", "sleep", "done", "stream_attempt",
               "stream_inflight"}
    /\ attempt \in 0..DefaultRetries
    /\ Len(sent) <= DefaultRetries
    /\ Len(pipeline) <= MaxCmds
    /\ Len(multi) <= MaxCmds
    /\ rpc \in {"none", "scan", "send", "check", "returned"}
    /\ Len(lines) <= MaxLines
    /\ Len(stream) <= Len(lines)
    /\ Len(received) <= Len(lines)
    /\ closed.stream \in 0..1
    /\ closed.out \in 0..1
    /\ endedBy \in {"none", "eof", "error", "cancel"}

\* ------------------------------------------------------------------ claims
RW == {"Read", "Write"}

\* the response is an application-level failure: a non-2xx status, or a 2xx
\* object with a non-empty string `error` field
AppFailure(r) ==
    \/ ~Is2xx(r.StatusCode)
    \/ /\ r.Body.t = "obj"
       /\ "error" \in DOMAIN r.Body.v
       /\ r.Body.v["error"].t = "str"
       /\ r.Body.v["error"].v # sEmpty

\* the body is exactly {"error": msg} with msg a string
IsErrorBody(b) ==
    b.t = "obj" /\ DOMAIN b.v = {"error"} /\ b.v["error"].t = "str"

\* the body is exactly {"result": X}
IsResultBody(b) == b.t = "obj" /\ DOMAIN b.v = {"result"}

\* C1: every HTTP request of a Read call goes to the edge endpoint, and none
\* to the main endpoint, when the client has a non-empty edge URL; with an
\* empty edge URL every request of a Read call goes to the main endpoint.
C1_ReadRouting ==
    call.op = "Read" =>
        \A i \in 1..Len(sent) :
            IF client.edgeUrl # ""
            THEN sent[i].base = client.edgeUrl /\ sent[i].base # client.url
            ELSE sent[i].base = client.url

C1_Witness ==
    call.op = "Read" /\ client.edgeUrl # "" /\ Len(sent) >= 2

\* C2: every HTTP request of a Write call, made directly or through Send,
\* Pipeline.Exec or Multi.Exec, goes to the main endpoint and never to the
\* edge endpoint, whether or not an edge URL is configured.
C2_WriteRouting ==
    call.op = "Write" =>
        \A i \in 1..Len(sent) :
            /\ sent[i].method = "POST"
            /\ sent[i].base = client.url
            /\ sent[i].base # client.edgeUrl

C2_Witness ==
    /\ call.op = "Write"
    /\ facade = "Pipeline.Exec"
    /\ client.edgeUrl # ""
    /\ Len(sent) >= 1

\* C3: a Read/Write call whose context is not cancelled and that never
\* obtains a response (every attempt fails at the network level) returns
\* only after exactly maxAttempts attempts, with a retry-exhaustion error
\* that wraps the network error of the last attempt; no call makes more than
\* maxAttempts attempts.
C3_RetryExhaustion ==
    /\ call.op \in RW => Len(sent) <= client.retries
    /\ (pc = "done" /\ call.op \in RW /\ req # NoReq /\ res = NoRes
        /\ ctxDoneAt = "none") =>
          /\ Len(sent) = client.retries
          /\ ret.result = JNull
          /\ ret.err = ExhaustedErr(client.retries, NetErr(client.retries - 1))

C3_Witness ==
    /\ pc = "done"
    /\ call.op = "Write"
    /\ Len(sent) = DefaultRetries
    /\ ret.err = ExhaustedErr(DefaultRetries, NetErr(DefaultRetries - 1))

\* C4: once an attempt of a Read/Write call obtains a response the call is
\* over: the attempts made are the failed ones plus the one that got the
\* response, none follows it, and the call's outcome is the interpretation
\* of that response.
C4_FirstResponseEndsRetries ==
    (call.op \in RW /\ res # NoRes) =>
        /\ pc = "done"
        /\ attempt = Len(backoffs)
        /\ Len(sent) = attempt + 1
        /\ ret = Interpret(res.StatusCode, res.Body, call.path, client.enableBase64)

C4_Witness ==
    /\ call.op = "Write"
    /\ res # NoRes
    /\ Len(sent) = 3
    /\ client.retries = DefaultRetries
    /\ pc = "done"
    /\ ret.err = NoErr

\* C5: a response with a non-2xx status, or a 2xx response with a non-empty
\* `error` field, ends the Read/Write call with an error right after that
\* exchange: it is never followed by a backoff wait or another request.
C5_AppFailureNotRetried ==
    (call.op \in RW /\ res # NoRes /\ AppFailure(res)) =>
        /\ pc = "done"
        /\ ret.result = JNull
        /\ ret.err.kind \in {"status", "baddecode", "msg"}
        /\ Len(backoffs) = attempt
        /\ Len(sent) = Len(backoffs) + 1

C5_Witness ==
    /\ call.op = "Read"
    /\ res # NoRes
    /\ res.StatusCode = 200
    /\ AppFailure(res)
    /\ Len(sent) = 1
    /\ client.retries = DefaultRetries
    /\ pc = "done"

\* C6: when the context is cancelled while a Read/Write call sleeps between
\* retries, the call leaves the sleep only by returning the cancellation
\* error, and no HTTP attempt follows the one that preceded the sleep.
C6_CancelDuringSleep ==
    (call.op \in RW /\ ctxDoneAt = "sleep") =>
        /\ pc \in {"sleep", "done"}
        /\ Len(sent) = Len(backoffs)
        /\ res = NoRes
        /\ pc = "done" => ret = Ret(JNull, CtxErr)

C6_Witness ==
    /\ call.op = "Write"
    /\ ctxDoneAt = "sleep"
    /\ pc = "done"
    /\ Len(sent) = 2
    /\ client.retries = DefaultRetries

\* C7: a Read/Write/Stream call whose request is built and whose context is
\* cancelled before the request is handed to the transport sends nothing
\* more, consults no backoff, and returns an error that errors.Is recognises
\* as the context's error: not a retry-exhaustion, status or origin error.
C7_CancelledBeforeIssue ==
    (call.op \in {"Read", "Write", "Stream"} /\ req # NoReq
     /\ ctxDoneAt \in {"start", "attempt", "stream_attempt"}) =>
        /\ pc \in {"attempt", "stream_attempt", "done"}
        /\ Len(sent) = Len(backoffs)
        /\ ctxDoneAt = "start" => sent = << >>
        /\ res = NoRes
        /\ pc = "done" =>
              /\ ErrorsIs(ret.err, CtxErr)
              /\ ret.err.kind \in {"leaf", "wrap"}
              /\ ret.result = JNull

C7_Witness ==
    /\ call.op = "Stream"
    /\ ctxDoneAt = "start"
    /\ pc = "done"
    /\ sent = << >>

\* C8: a Write whose body cannot be JSON-serialized returns at once an error
\* "unable to marshal request body: ..." with no HTTP request and no retry.
C8_MarshalError ==
    (call.op = "Write" /\ ~Marshalable(call.body)) =>
        /\ pc = "done"
        /\ sent = << >>
        /\ backoffs = << >>
        /\ attempt = 0
        /\ ret.result = JNull
        /\ ret.err.kind = "wrap"
        /\ ret.err.format = "unable to marshal request body: %w"

C8_Witness ==
    /\ call.op = "Write"
    /\ call.body = JArr(<<JStr(sGET), JChan>>)
    /\ pc = "done"

\* C9: for a 2xx response whose body is {"result": X}, Read and Write return
\* X with no error when base64 mode is off and decodeBase64(X) when it is on.
C9_ResultRoundTrip ==
    (call.op \in RW /\ res # NoRes /\ Is2xx(res.StatusCode)
     /\ IsResultBody(res.Body)) =>
        /\ ret.err = NoErr
        /\ ret.result = IF client.enableBase64
                        THEN decodeBase64(res.Body.v["result"])
                        ELSE res.Body.v["result"]

C9_Witness ==
    /\ call.op = "Read"
    /\ res # NoRes
    /\ res.StatusCode = 299
    /\ client.enableBase64
    /\ res.Body = JObj(Obj1("result", JArr(<<JStr(sYmFy), JNum(1)>>)))
    /\ ret = Ret(JArr(<<JStr(sbar), JNum(1)>>), NoErr)

\* C10 as stated: for every response {"error": msg}, every string msg and
\* every status, the call fails; with the message msg when the status is
\* 2xx, with the status code in the message otherwise.
C10_Original ==
    (call.op \in RW /\ res # NoRes /\ IsErrorBody(res.Body)) =>
        /\ ret.err # NoErr
        /\ Is2xx(res.StatusCode) => ret.err = MsgErr(res.Body.v["error"].v)
        /\ ~Is2xx(res.StatusCode) =>
              ret.err.kind = "status" /\ ret.err.code = res.StatusCode

\* C10 amended: the same for every non-empty string msg.
C10_ErrorEnvelope ==
    (call.op \in RW /\ res # NoRes /\ IsErrorBody(res.Body)
     /\ res.Body.v["error"].v # sEmpty) =>
        /\ ret.err # NoErr
        /\ ret.result = JNull
        /\ Is2xx(res.StatusCode) => ret.err = MsgErr(res.Body.v["error"].v)
        /\ ~Is2xx(res.StatusCode) =>
              ret.err.kind = "status" /\ ret.err.code = res.StatusCode

C10_Witness ==
    /\ call.op = "Write"
    /\ res # NoRes
    /\ res.StatusCode = 200
    /\ res.Body = JObj(Obj1("error", JStr(sERR)))
    /\ ret = Ret(JNull, MsgErr(sERR))


\* C11: whenever the response to a Read or Write has a status outside
\* [200,300), the call returns no result and an error that carries the
\* status, whatever the body is: a {"result": ...} object, an {"error": ...}
\* object, an array, a scalar, or no JSON at all.  The error is the status
\* error and never the logical error of an envelope.
C11_NonSuccessStatus ==
    (call.op \in RW /\ res # NoRes /\ ~Is2xx(res.StatusCode)) =>
        /\ pc = "done"
        /\ ret.result = JNull
        /\ ret.err # NoErr
        /\ IF res.Body.t \in {"obj", "null"}
           THEN ret.err.kind = "status" /\ ret.err.code = res.StatusCode
           ELSE ret.err.kind = "baddecode" /\ ret.err.status = res.StatusCode

C11_Witness ==
    /\ call.op = "Read"
    /\ res # NoRes
    /\ res.StatusCode = 500
    /\ res.Body = JObj(Obj1("result", JStr(sOK)))
    /\ ret.result = JNull
    /\ ret.err.kind = "status"

\* the value request hands to decodeBase64: the `result` field of an object
\* that has one, the whole body otherwise
Undecoded(b) == IF b.t = "obj" /\ "result" \in DOMAIN b.v THEN b.v["result"] ELSE b

\* a 2xx response in base64 mode whose body is JSON and no logical error
DecodedCase ==
    /\ call.op \in RW
    /\ res # NoRes
    /\ client.enableBase64
    /\ res.Body # InvalidBody
    /\ ~AppFailure(res)

\* what the claim says a string leaf becomes
StringRule(s) ==
    IF s = sOK THEN s
    ELSE IF DecodeString(s).ok THEN DecodeString(s).bytes
    ELSE s

\* every string leaf of `after` is StringRule of the leaf of `before` at the
\* same position
RECURSIVE LeavesFollowRule(_, _)
LeavesFollowRule(before, after) ==
    CASE before.t = "str" -> after = JStr(StringRule(before.v))
      [] before.t = "arr" ->
            /\ after.t = "arr"
            /\ DOMAIN after.v = DOMAIN before.v
            /\ \A i \in DOMAIN before.v : LeavesFollowRule(before.v[i], after.v[i])
      [] before.t = "obj" ->
            /\ after.t = "obj"
            /\ DOMAIN after.v = DOMAIN before.v
            /\ \A k \in DOMAIN before.v : LeavesFollowRule(before.v[k], after.v[k])
      [] OTHER -> TRUE

\* C12: in base64 mode every string leaf s of a result becomes: s itself when
\* s is "OK"; the decoded bytes when s is valid padded standard base64
\* ("YmFy" becomes "bar", "YQ==" becomes "a", "" stays ""); s itself
\* otherwise ("bar" stays "bar"), and the call does not fail.
C12_StringLeaves ==
    /\ StringRule(sOK) = sOK
    /\ StringRule(sYmFy) = sbar
    /\ StringRule(sYQ) = <<97>>
    /\ StringRule(sbar) = sbar
    /\ StringRule(sEmpty) = sEmpty
    /\ DecodedCase =>
          /\ ret.err = NoErr
          /\ LeavesFollowRule(Undecoded(res.Body), ret.result)

C12_Witness ==
    /\ call.op = "Read"
    /\ res # NoRes
    /\ res.StatusCode = 200
    /\ client.enableBase64
    /\ res.Body = JObj(Obj1("result", JStr(sbar)))
    /\ ret = Ret(JStr(sbar), NoErr)

\* the value with every string leaf blanked: what is left is the shape, the
\* numbers, the booleans and the nulls
RECURSIVE Skeleton(_)
Skeleton(v) ==
    CASE v.t = "str" -> JStr(sEmpty)
      [] v.t = "arr" -> JArr([i \in 1..Len(v.v) |-> Skeleton(v.v[i])])
      [] v.t = "obj" -> JObj([k \in DOMAIN v.v |-> Skeleton(v.v[k])])
      [] OTHER -> v

\* C13: the base64 traversal never fails and keeps the shape: numbers,
\* booleans and null are unchanged, every sequence keeps its length and
\* order, every mapping keeps its key set, and the string rule is applied to
\* the strings at every depth, inside sequences and inside mappings.
C13_ShapePreserved ==
    DecodedCase =>
        /\ pc = "done"
        /\ ret.err = NoErr
        /\ Skeleton(ret.result) = Skeleton(Undecoded(res.Body))
        /\ LeavesFollowRule(Undecoded(res.Body), ret.result)

C13_Witness ==
    /\ call.op = "Write"
    /\ res # NoRes
    /\ res.StatusCode = 200
    /\ client.enableBase64
    /\ res.Body = JObj(Obj1("result", JArr(<<JNull, JBool(FALSE), JObj(Obj1("b", JStr(sYQ)))>>)))
    /\ ret = Ret(JArr(<<JNull, JBool(FALSE), JObj(Obj1("b", JStr(<<97>>)))>>), NoErr)

\* the facade method, the buffer history and the path of each batch object
Batches ==
    {[exec |-> "Pipeline.Exec", buffer |-> "Pipeline", path |-> <<"pipeline">>],
     [exec |-> "Multi.Exec", buffer |-> "Multi", path |-> <<"multi-exec">>]}

\* the JSON array [[command, args...], ...] of a sequence of Push calls
BatchOf(pushes) ==
    JArr([i \in 1..Len(pushes) |->
            JArr(<<JStr(pushes[i].command)>> \o pushes[i].args)])

\* C14: after a non-empty sequence of Push calls on a Pipeline (resp. Multi),
\* every HTTP request Exec sends is a POST to /pipeline (resp. /multi-exec)
\* on the main endpoint whose body is the array of pushed commands
\* [command, args...] in push order; one request is sent per attempt, so
\* exactly one when the first attempt obtains a response; and on a 2xx array
\* response Exec returns an array of the same length whose elements are the
\* origin's elements in the origin's order (each passed through the base64
\* traversal in base64 mode).
C14_BatchExec ==
    \A B \in Batches :
        (facade = B.exec /\ pushed[B.buffer] # << >> /\ pc # "idle") =>
            /\ call.op = "Write"
            /\ \A i \in 1..Len(sent) :
                  /\ sent[i].method = "POST"
                  /\ sent[i].base = client.url
                  /\ sent[i].path = B.path
                  /\ sent[i].payload = BatchOf(pushed[B.buffer])
            /\ Len(sent) <= Len(backoffs) + 1
            /\ (res # NoRes) => Len(sent) = Len(backoffs) + 1
            /\ (res # NoRes /\ Is2xx(res.StatusCode) /\ res.Body.t = "arr") =>
                  /\ pc = "done"
                  /\ out.err = NoErr
                  /\ out.result.t = "arr"
                  /\ Len(out.result.v) = Len(res.Body.v)
                  /\ \A i \in 1..Len(res.Body.v) :
                        out.result.v[i] = IF client.enableBase64
                                          THEN decodeBase64(res.Body.v[i])
                                          ELSE res.Body.v[i]

C14_Witness ==
    /\ facade = "Pipeline.Exec"
    /\ pushed.Pipeline = <<[command |-> sSET, args |-> <<JStr(sk), JStr(sv)>>],
                           [command |-> sGET, args |-> <<JStr(sk)>>]>>
    /\ Len(sent) = 1
    /\ sent[1].payload = JArr(<<JArr(<<JStr(sSET), JStr(sk), JStr(sv)>>),
                                JArr(<<JStr(sGET), JStr(sk)>>)>>)
    /\ res # NoRes
    /\ res.StatusCode = 200
    /\ ~client.enableBase64
    /\ out = Ret(JArr(<<JObj(Obj1("result", JStr(sOK))),
                        JObj(Obj1("result", JStr(sYmFy)))>>), NoErr)

\* C15: Exec on a Pipeline or Multi on which nothing was pushed sends no
\* HTTP request and returns an empty list and no error.
C15_EmptyExec ==
    \A B \in Batches :
        (facade = B.exec /\ pushed[B.buffer] = << >> /\ pc # "idle") =>
            /\ pc = "done"
            /\ sent = << >>
            /\ req = NoReq
            /\ out = Ret(JArr(<< >>), NoErr)

C15_Witness ==
    /\ facade = "Multi.Exec"
    /\ pushed.Multi = << >>
    /\ pc = "done"
    /\ sent = << >>
    /\ out = Ret(JArr(<< >>), NoErr)

\* ---- the stream reader
\* a line as the claims speak of it: without its end-of-line marker
TextOf(raw) ==
    IF raw # << >> /\ raw[Len(raw)] = 13 THEN [i \in 1..(Len(raw) - 1) |-> raw[i]] ELSE raw

\* the line begins with the six characters d a t a : space
IsDataLine(l) == Len(l) >= 6 /\ \A i \in 1..6 : l[i] = sData[i]

\* the text after the prefix, less one leading and one trailing double quote
\* when it has both and is at least two characters long
Payload(l) ==
    LET t == [i \in 1..(Len(l) - 6) |-> l[i + 6]]
    IN  IF Len(t) >= 2 /\ t[1] = 34 /\ t[Len(t)] = 34
        THEN [i \in 1..(Len(t) - 2) |-> t[i + 1]]
        ELSE t

\* the payloads of the data lines of a body, in the order of the lines
RECURSIVE Payloads(_)
Payloads(ls) ==
    IF ls = << >> THEN << >>
    ELSE IF IsDataLine(TextOf(Head(ls)))
    THEN <<Payload(TextOf(Head(ls)))>> \o Payloads(Tail(ls))
    ELSE Payloads(Tail(ls))

\* the lines the scanner has read so far
Scanned == SubSeq(lines, 1, Len(lines) - Len(stream))

ButLast(s) == SubSeq(s, 1, Len(s) - 1)

IsPrefixOf(s, t) == Len(s) <= Len(t) /\ s = SubSeq(t, 1, Len(s))

\* C16: the reader offers one value for each line it has read that begins
\* with "data: ", and that value is the text after the prefix with one
\* leading and one trailing double quote removed when the text has both and
\* is at least two characters long, unchanged otherwise; a line without the
\* prefix yields no value.  The values the consumer has are those of the
\* lines read, the last one excepted while the reader still offers it or
\* when it gave up offering it on cancellation.
C16_DataLines ==
    rpc # "none" =>
        LET payloads == Payloads(Scanned)
        IN  CASE rpc = "send" ->
                    /\ IsDataLine(TextOf(Scanned[Len(Scanned)]))
                    /\ msg = Payload(TextOf(Scanned[Len(Scanned)]))
                    /\ received = ButLast(payloads)
              [] rpc \in {"scan", "check"} -> received = payloads
              [] rpc = "returned" ->
                    \/ received = payloads
                    \/ /\ endedBy = "cancel"
                       /\ payloads # << >>
                       /\ received = ButLast(payloads)

C16_Witness ==
    /\ lines = <<lQuoted, lQuote>>
    /\ rpc = "returned"
    /\ endedBy = "eof"
    /\ received = <<<<104, 105>>, <<34>>>>

\* C17: the values the consumer received are, at every moment, a prefix of
\* the payloads of the body's data lines in the order of the body: nothing
\* is reordered, duplicated or skipped.
C17_PrefixInOrder ==
    IsPrefixOf(received, Payloads(lines))

C17_Witness ==
    /\ lines = <<lBare, lHi>>
    /\ received = <<<< >>, <<104, 105>>>>

\* C18: while the reader runs neither the stream nor the channel is closed;
\* when it has returned, by end of stream, read error or cancellation, each
\* was closed exactly once; the step on which it returns delivers nothing,
\* and nothing is delivered once the channel is closed.
C18_ClosedOnce ==
    /\ [](/\ rpc \in {"scan", "send", "check"} => closed = [stream |-> 0, out |-> 0]
          /\ rpc = "returned" =>
                /\ closed = [stream |-> 1, out |-> 1]
                /\ endedBy \in {"eof", "error", "cancel"}
                /\ bodyClosed)
    /\ [][/\ closed.out >= 1 => received' = received
          /\ (rpc # "returned" /\ rpc' = "returned") => received' = received]_vars

C18_Witness ==
    /\ rpc = "returned"
    /\ endedBy = "error"
    /\ Len(received) = 1
    /\ closed = [stream |-> 1, out |-> 1]

\* C19 as stated: once the context is cancelled the consumer receives no
\* further value.
C19_Original ==
    (rpc # "none" /\ ctxDone) => Len(received) = cancelSeen.received

\* C19 amended: once the context is cancelled the consumer receives at most
\* one further value.
C19_AtMostOneMore ==
    (rpc # "none" /\ ctxDone) =>
        /\ Len(received) <= cancelSeen.received + 1
        /\ IsPrefixOf(received, Payloads(lines))

C19_Witness ==
    /\ ctxDone
    /\ cancelSeen.at = "send"
    /\ rpc = "returned"
    /\ Len(received) = cancelSeen.received + 1

\* C20: a reader that is offering a value nobody takes, and whose context is
\* cancelled, eventually returns with the stream and the channel closed.
C20_UnblockedByCancel ==
    (rpc = "send" /\ ctxDone) ~> (rpc = "returned" /\ closed = [stream |-> 1, out |-> 1])

C20_Witness ==
    /\ cancelSeen.at = "send"
    /\ cancelSeen.received = 0
    /\ rpc = "returned"
    /\ endedBy = "cancel"
    /\ received = << >>
    /\ lines # << >>

\* C21: a Stream call hands at most one HTTP request to the transport; that
\* request is a GET on the main endpoint, also when an edge URL is
\* configured, with the header Accept: text/event-stream and no
\* Content-Type; when the request fails at the network level the call
\* returns that failure, wrapped, after this one request, and the backoff
\* function is never consulted.
C21_StreamOneRequest ==
    call.op = "Stream" =>
        /\ Len(sent) <= 1
        /\ backoffs = << >>
        /\ attempt = 0
        /\ \A i \in 1..Len(sent) :
              /\ sent[i].method = "GET"
              /\ sent[i].base = MainUrl
              /\ sent[i].path = call.path
              /\ "Accept" \in DOMAIN sent[i].header
              /\ sent[i].header["Accept"] = "text/event-stream"
              /\ "Content-Type" \notin DOMAIN sent[i].header
        /\ (pc = "done" /\ res = NoRes /\ sent # << >>) =>
              /\ ret.result = JNull
              /\ ret.err.kind = "wrap"
              /\ ret.err.cause \in {NetErr(0), CtxErr}

C21_Witness ==
    /\ call.op = "Stream"
    /\ client.edgeUrl = EdgeUrlValue
    /\ pc = "done"
    /\ res = NoRes
    /\ Len(sent) = 1
    /\ ret.err = Wrap("unable to perform stream request: %w", NetErr(0))

\* C22: the ReadFromEdge option decides where reads go: with ReadFromEdge
\* false every request of a Read call goes to the main endpoint, also when an
\* edge URL is configured; with ReadFromEdge true and an edge URL the first
\* request of a Read call goes to the edge endpoint.
C22_ReadFromEdgeDecides ==
    call.op = "Read" =>
        /\ ~options.ReadFromEdge => \A i \in 1..Len(sent) : sent[i].base = MainUrl
        /\ (options.ReadFromEdge /\ client.edgeUrl # "" /\ sent # << >>) =>
              sent[1].base = client.edgeUrl

Returned(x) == IF client.enableBase64 THEN decodeBase64(x) ELSE x

\* the object has an `error` field that is a non-empty string
HasErrorText(m) == "error" \in DOMAIN m /\ m["error"].t = "str" /\ m["error"].v # sEmpty

\* a 2xx response to Read or Write whose body is a JSON object
ObjectCase == call.op \in RW /\ res # NoRes /\ Is2xx(res.StatusCode) /\ res.Body.t = "obj"

\* C24: for a 2xx response whose body is a JSON object the outcome is, in
\* this order: failure with the string of a non-empty string `error` field,
\* also when a `result` field is present; else the value of the `result`
\* field when there is one, a null one included; else the whole object.
C24_EnvelopeOrder ==
    ObjectCase =>
        LET m == res.Body.v
        IN  /\ pc = "done"
            /\ HasErrorText(m) => ret = Ret(JNull, MsgErr(m["error"].v))
            /\ (~HasErrorText(m) /\ "result" \in DOMAIN m) =>
                  ret = Ret(Returned(m["result"]), NoErr)
            /\ (~HasErrorText(m) /\ "result" \notin DOMAIN m) =>
                  ret = Ret(Returned(res.Body), NoErr)

C24_Witness ==
    /\ ObjectCase
    /\ res.Body = JObj(Obj2("error", JStr(sERR), "result", JStr(sYmFy)))
    /\ ret = Ret(JNull, MsgErr(sERR))

\* C30: a 2xx response object whose `error` field is the empty string, or is
\* not a string, is not a failure: the call returns the `result` field when
\* there is one and the whole object otherwise, with no error.
C30_EmptyErrorNotFailure ==
    (ObjectCase /\ "error" \in DOMAIN res.Body.v
     /\ (res.Body.v["error"].t # "str" \/ res.Body.v["error"] = JStr(sEmpty))) =>
        /\ ret.err = NoErr
        /\ ret.result = IF "result" \in DOMAIN res.Body.v
                        THEN Returned(res.Body.v["result"])
                        ELSE Returned(res.Body)

C30_Witness ==
    /\ ObjectCase
    /\ ~client.enableBase64
    /\ res.Body = JObj(Obj2("error", JNum(1), "result", JStr(sOK)))
    /\ ret = Ret(JStr(sOK), NoErr)

\* C25: for a 2xx response whose body is a JSON array, Write returns an
\* array of the same length with no error, and so do Send, Pipeline.Exec and
\* Multi.Exec; each element is the origin's element at the same index (after
\* the base64 traversal in base64 mode), and an element {"error": msg} is
\* still an object with an `error` field there: it fails nothing.
C25_ArrayUninterpreted ==
    (call.op = "Write" /\ res # NoRes /\ Is2xx(res.StatusCode) /\ res.Body.t = "arr") =>
        /\ pc = "done"
        /\ ret.err = NoErr
        /\ out.err = NoErr
        /\ ret.result.t = "arr"
        /\ out.result = ret.result
        /\ Len(ret.result.v) = Len(res.Body.v)
        /\ \A i \in 1..Len(res.Body.v) :
              /\ ret.result.v[i] = Returned(res.Body.v[i])
              /\ ~client.enableBase64 => ret.result.v[i] = res.Body.v[i]
              /\ (res.Body.v[i].t = "obj" /\ "error" \in DOMAIN res.Body.v[i].v) =>
                    ret.result.v[i].t = "obj" /\ "error" \in DOMAIN ret.result.v[i].v

C25_Witness ==
    /\ facade = "Multi.Exec"
    /\ res # NoRes
    /\ res.StatusCode = 200
    /\ res.Body = JArr(<<JObj(Obj1("error", JStr(sERR))), JObj(Obj1("result", JNum(1)))>>)
    /\ out = Ret(res.Body, NoErr)

\* C26: when the stream cannot be opened, by a network error or a non-2xx
\* status, Subscribe / Monitor returns that error and no channel and starts
\* no reader, and the body of a non-2xx response is closed by then; a reader
\* and a channel exist only after a 2xx response.
C26_OpenFailure ==
    facade \in {"Subscribe", "Monitor"} =>
        /\ (pc = "done" /\ ret.err # NoErr) =>
              /\ out = Ret(JNull, ret.err)
              /\ rpc = "none"
              /\ received = << >>
              /\ closed = [stream |-> 0, out |-> 0]
        /\ (pc = "done" /\ res = NoRes) => ret.err # NoErr
        /\ (res # NoRes /\ ~Is2xx(res.StatusCode)) =>
              /\ pc = "done"
              /\ bodyClosed
              /\ ret = Ret(JNull, StreamStatusErr(res.StatusCode))
        /\ (rpc # "none" \/ (out # NoRet /\ out.result = JChan)) =>
              /\ res # NoRes
              /\ Is2xx(res.StatusCode)
              /\ ret = Ret(StreamBody, NoErr)
              /\ rpc # "none"
              /\ out = Ret(JChan, NoErr)

C26_Witness ==
    /\ facade = "Monitor"
    /\ pc = "done"
    /\ res # NoRes
    /\ res.StatusCode = 500
    /\ bodyClosed
    /\ out = Ret(JNull, StreamStatusErr(500))
    /\ rpc = "none"

\* the requests of the call that were handed to the transport and have
\* neither failed nor been answered
InFlight == Len(sent) - Len(backoffs) - (IF res # NoRes THEN 1 ELSE 0)

\* C27: within one Read/Write call at most one attempt is in flight at any
\* time; the backoff function has been consulted once for each failed
\* attempt, with the indices 0, 1, 2, ... in that order; a request goes out
\* only when every earlier one has failed and the wait that followed it is
\* over, and the attempt index moves on by one, from a wait only.
C27_SequentialAttempts ==
    /\ [](call.op \in RW =>
            /\ InFlight \in {0, 1}
            /\ InFlight = 1 <=> pc = "inflight"
            /\ backoffs = [i \in 1..Len(backoffs) |-> i - 1]
            /\ pc = "inflight" => Len(sent) = attempt + 1 /\ Len(backoffs) = attempt
            /\ pc = "sleep" => Len(sent) = attempt + 1 /\ Len(backoffs) = attempt + 1
            /\ pc = "attempt" => Len(sent) = attempt /\ Len(backoffs) = attempt)
    /\ [][/\ (call.op \in RW /\ sent' # sent /\ pc # "done") =>
                /\ pc = "attempt"
                /\ sent' = Append(sent, req)
                /\ Len(backoffs) = Len(sent)
                /\ res = NoRes
          /\ (call.op \in RW /\ attempt' > attempt) =>
                /\ pc = "sleep"
                /\ attempt' = attempt + 1
                /\ backoffs[Len(backoffs)] = attempt]_vars

C27_Witness ==
    /\ call.op = "Write"
    /\ pc = "inflight"
    /\ Len(sent) = 3
    /\ backoffs = <<0, 1>>

\* s with one element more at its end
Extends(t, s) == Len(t) = Len(s) + 1 /\ SubSeq(t, 1, Len(s)) = s

\* C28: Exec leaves the buffer of a Pipeline or Multi as it is, whether it
\* succeeds or fails: no step of a call in progress, its return included,
\* changes a buffer; a buffer changes only by a Push, which adds one command
\* at its end, or, for a Multi, by Discard; so at every moment each buffer
\* holds the commands pushed so far in push order, and every Exec, the
\* first or a later one, sends all of them in that order.
C28_ExecKeepsBuffer ==
    /\ [](/\ Commands2Body(pipeline) = BatchOf(pushed.Pipeline)
          /\ Commands2Body(multi) = BatchOf(pushed.Multi)
          /\ \A B \in Batches :
                (facade = B.exec /\ pc # "idle") =>
                    \A i \in 1..Len(sent) : sent[i].payload = BatchOf(pushed[B.buffer]))
    /\ [][/\ pc # "idle" => pipeline' = pipeline /\ multi' = multi
          /\ pipeline' # pipeline => Extends(pipeline', pipeline)
          /\ multi' # multi => Extends(multi', multi) \/ multi' = << >>]_vars

C28_Witness ==
    /\ facade = "Pipeline.Exec"
    /\ pc = "done"
    /\ res # NoRes
    /\ res.StatusCode = 500
    /\ out.err # NoErr
    /\ Len(sent) = 1
    /\ Len(pipeline) = 2
    /\ Commands2Body(pipeline) = sent[1].payload

\* C29: after the context is cancelled the consumer receives at most one
\* more value.  A value is delivered only from the reader's first select,
\* and the reader is then at its second select; from there, with the
\* context cancelled, its next step is to return, with no further line read.
C29_OneMoreAtMost ==
    /\ []((rpc # "none" /\ ctxDone) =>
             Len(received) - cancelSeen.received \in {0, 1})
    /\ [][/\ received' # received =>
                /\ rpc = "send"
                /\ rpc' = "check"
                /\ received' = Append(received, msg)
          /\ (rpc = "check" /\ ctxDone /\ rpc' # rpc) =>
                /\ rpc' = "returned"
                /\ stream' = stream
                /\ received' = received]_vars

C29_Witness ==
    /\ ctxDone
    /\ cancelSeen.at = "scan"
    /\ Len(received) = cancelSeen.received + 1
    /\ rpc = "returned"
    /\ endedBy = "cancel"
    /\ stream # << >>
====
